---------------------------- MODULE Spec2Model ----------------------------
(***************************************************************************)
(* A model of the Pokemon skill (src/__init__.py): the fuzzy name matcher  *)
(* PokemonSkill._extract_name, the evolution-tree walkers                  *)
(* find_species_chain / find_final_species_chains, and the intent handlers *)
(* with their single-slot memory last_pokemon.                             *)
(*                                                                         *)
(* Strings are sequences of one-character strings, so that tokenizing and  *)
(* difflib's similarity ratio are computed on the characters.  Scores are  *)
(* exact rationals, held as integers in units of 1/One.                    *)
(***************************************************************************)
EXTENDS Integers, Sequences, FiniteSets, TLC

(***************************************************************************)
(* Python values.                                                          *)
(***************************************************************************)
\* Python's None, where a string (a sequence of characters) may stand too.
None == <<"None">>

\* bool(x) is False for None and for the empty string / the empty list.
Falsy(x) == x = None \/ x = <<>>

\* The characters re's \w matches, among those the model's strings use.
WordChars ==
    {"a", "b", "c", "d", "e", "f", "g", "h", "i", "j", "k", "l", "m",
     "n", "o", "p", "q", "r", "s", "t", "u", "v", "w", "x", "y", "z", "_"}

Max(S) == CHOOSE x \in S : \A y \in S : y <= x

Min(S) == CHOOSE x \in S : \A y \in S : x <= y

(***************************************************************************)
(* split_word: re.split("\W+", to_split).  Every maximal run of non-word   *)
(* characters is one separator; a separator at the start or the end of the *)
(* string leaves an empty string there, and "" splits into [""].           *)
(***************************************************************************)
RECURSIVE SkipNonWord(_, _)
SkipNonWord(s, i) ==
    IF i > Len(s) \/ s[i] \in WordChars THEN i ELSE SkipNonWord(s, i + 1)

RECURSIVE SplitFrom(_, _, _, _)
SplitFrom(s, i, cur, acc) ==
    IF i > Len(s) THEN Append(acc, cur)
    ELSE IF s[i] \in WordChars THEN SplitFrom(s, i + 1, Append(cur, s[i]), acc)
    ELSE SplitFrom(s, SkipNonWord(s, i), <<>>, Append(acc, cur))

split_word(to_split) == SplitFrom(to_split, 1, <<>>, <<>>)

(***************************************************************************)
(* str.split("-"): every hyphen separates, empty pieces are kept.          *)
(***************************************************************************)
RECURSIVE HyphenFrom(_, _, _, _)
HyphenFrom(s, i, cur, acc) ==
    IF i > Len(s) THEN Append(acc, cur)
    ELSE IF s[i] = "-" THEN HyphenFrom(s, i + 1, <<>>, Append(acc, cur))
    ELSE HyphenFrom(s, i + 1, Append(cur, s[i]), acc)

split_hyphen(name_element) == HyphenFrom(name_element, 1, <<>>, <<>>)

(***************************************************************************)
(* difflib.SequenceMatcher(None, a, b).ratio() (no junk; the autojunk      *)
(* heuristic needs 200 characters).  find_longest_match gives the longest  *)
(* common block of a[alo..ahi] and b[blo..bhi], the one starting earliest  *)
(* in a and, among those, earliest in b; the matching blocks are that      *)
(* block and, recursively, those to its left and to its right.  Indices    *)
(* are 1-based and the ranges inclusive.                                   *)
(***************************************************************************)
RECURSIVE CommonLen(_, _, _, _, _, _)
CommonLen(a, b, i, j, ahi, bhi) ==
    IF i > ahi \/ j > bhi THEN 0
    ELSE IF a[i] # b[j] THEN 0
    ELSE 1 + CommonLen(a, b, i + 1, j + 1, ahi, bhi)

\* The block <<i, j, k>> among the blocks of the longest size k: least i,
\* then least j.
FirstOf(blocks) ==
    CHOOSE p \in blocks : \A q \in blocks :
        p[1] < q[1] \/ (p[1] = q[1] /\ p[2] <= q[2])

LongestOf(blocks) ==
    FirstOf({p \in blocks : \A q \in blocks : q[3] <= p[3]})

find_longest_match(a, b, alo, ahi, blo, bhi) ==
    LongestOf({<<i, j, CommonLen(a, b, i, j, ahi, bhi)>> :
                   i \in alo..ahi, j \in blo..bhi})

RECURSIVE matching_size(_, _, _, _, _, _)
\* The size of the block m and of the matching blocks left and right of it.
blocks_around(a, b, alo, ahi, blo, bhi, m) ==
    IF m[3] = 0 THEN 0
    ELSE m[3]
         + matching_size(a, b, alo, m[1] - 1, blo, m[2] - 1)
         + matching_size(a, b, m[1] + m[3], ahi, m[2] + m[3], bhi)

matching_size(a, b, alo, ahi, blo, bhi) ==
    IF alo > ahi \/ blo > bhi THEN 0
    ELSE blocks_around(a, b, alo, ahi, blo, bhi,
                       find_longest_match(a, b, alo, ahi, blo, bhi))

\* ratio() as the pair <<2 * matches, length>>; 1.0 when both are empty.
ratio_pair(a, b) ==
    IF Len(a) + Len(b) = 0 THEN <<1, 1>>
    ELSE <<2 * matching_size(a, b, 1, Len(a), 1, Len(b)), Len(a) + Len(b)>>


(***************************************************************************)
(* The input universes of the name matcher.  Each utterance is a string;   *)
(* each candidate name is a canonical identifier: non-empty words of       *)
(* letters joined by single hyphens.                                       *)
(***************************************************************************)
pikachu == <<"p", "i", "k", "a", "c", "h", "u">>

raichu == <<"r", "a", "i", "c", "h", "u">>

pichu == <<"p", "i", "c", "h", "u">>

rattata == <<"r", "a", "t", "t", "a", "t", "a">>

rattata_alola ==
    <<"r", "a", "t", "t", "a", "t", "a", "-", "a", "l", "o", "l", "a">>

\* "tell me about pikachoo please": ratio(pikachu, pikachoo) = 12/15.
tell_me_about_pikachoo_please ==
    <<"t", "e", "l", "l", " ", "m", "e", " ", "a", "b", "o", "u", "t", " ",
      "p", "i", "k", "a", "c", "h", "o", "o", " ",
      "p", "l", "e", "a", "s", "e">>

\* "tell me about pikacho please": ratio(pikachu, pikacho) = 12/14.
tell_me_about_pikacho_please ==
    <<"t", "e", "l", "l", " ", "m", "e", " ", "a", "b", "o", "u", "t", " ",
      "p", "i", "k", "a", "c", "h", "o", " ",
      "p", "l", "e", "a", "s", "e">>

rattata_alola_spoken ==
    <<"r", "a", "t", "t", "a", "t", "a", " ", "a", "l", "o", "l", "a">>

what_is_the_weather ==
    <<"w", "h", "a", "t", " ", "i", "s", " ", "t", "h", "e", " ",
      "w", "e", "a", "t", "h", "e", "r">>

PokemonCatalog == {pikachu, raichu, pichu, rattata, rattata_alola}

PokemonUtterances ==
    {pikachu, raichu, pichu, rattata, rattata_alola, rattata_alola_spoken,
     tell_me_about_pikachoo_please, tell_me_about_pikacho_please,
     what_is_the_weather,
     <<>>, <<"?", "!">>, <<" ", "p", "i", "c", "h", "u", ".">>}

\* Short names over two letters: one-word names, a two-word name whose base
\* is a name too, and a name that repeats its word.
ShortCatalog ==
    {<<"a">>, <<"a", "b">>, <<"a", "b", "a">>, <<"a", "-", "b">>,
     <<"a", "-", "a">>}

ShortChars == {"a", "b", " "}

\* The longest list of candidate names drawn from PokemonCatalog.
MaxNames == 3

\* The longest list of candidate names drawn from ShortCatalog.
MaxShortNames == 2

\* The longest utterance over ShortChars.
MaxUtteranceLen == 4

StringsUpTo(chars, n) == UNION {[1..k -> chars] : k \in 0..n}

\* The lists of at most n distinct names of a catalog, in every order.
ListsOf(catalog, n) ==
    {l \in UNION {[1..k -> catalog] : k \in 0..n} :
        \A i, j \in 1..Len(l) : i # j => l[i] # l[j]}

\* The pairs <<utterance, names>> _extract_name is called with.
NameInputs ==
    (PokemonUtterances \X ListsOf(PokemonCatalog, MaxNames))
    \cup (StringsUpTo(ShortChars, MaxUtteranceLen)
          \X ListsOf(ShortCatalog, MaxShortNames))

(***************************************************************************)
(* Scores.  A ratio is 2 * matches / length.  The words of the universes   *)
(* above have at most 8 characters, so length is at most 16, and every     *)
(* ratio, every sum of ratios and a quarter of it is a whole number of     *)
(* units of 1/One, One being four times the least common multiple of       *)
(* 1..16.  scaled has no value for a length that does not divide One.      *)
(***************************************************************************)
One == 4 * (16 * 9 * 5 * 7 * 11 * 13)

scaled(r) == CHOOSE q \in {(r[1] * One) \div r[2]} : q * r[2] = r[1] * One

ratio(a, b) == scaled(ratio_pair(a, b))

RECURSIVE SumSeq(_)
SumSeq(s) == IF s = <<>> THEN 0 ELSE Head(s) + SumSeq(Tail(s))

(***************************************************************************)
(* PokemonSkill._extract_name.  alike_amount walks the utterance's tokens  *)
(* (split) with name_index pointing into the candidate's words; reading    *)
(* split_name[name_index] at or past the end of the list is Python's       *)
(* IndexError, kept as the field raised.                                   *)
(***************************************************************************)
\* A variant with a bar of .6.
above_bar_at_three_fifths(equality) == 10 * equality > 6 * One

\* equality > .7
above_bar(equality) == 10 * equality > 7 * One

\* A variant with > for >=: the loop goes on once the whole name is matched.
name_matched_late(name_index, split_name) == name_index > Len(split_name)

\* name_index >= len(split_name): the whole name has been matched.
name_matched(name_index, split_name) == name_index >= Len(split_name)

returned(equalities) == [raised |-> FALSE, sum |-> SumSeq(equalities)]

RECURSIVE AlikeScan(_, _, _, _, _)
\* One pass of the loop body, with the token's equality computed.
AlikeStep(split_name, split, i, name_index, equalities, equality) ==
    IF above_bar(equality)
    THEN IF name_matched(name_index + 1, split_name)
         THEN returned(Append(equalities, equality))
         ELSE AlikeScan(split_name, split, i + 1, name_index + 1,
                        Append(equalities, equality))
    ELSE IF name_index > 0 \/ name_matched(name_index, split_name)
         THEN returned(equalities)
         ELSE AlikeScan(split_name, split, i + 1, name_index, equalities)

AlikeScan(split_name, split, i, name_index, equalities) ==
    IF i > Len(split) THEN returned(equalities)
    ELSE IF name_index >= Len(split_name) THEN [raised |-> TRUE, sum |-> 0]
    ELSE AlikeStep(split_name, split, i, name_index, equalities,
                   ratio(split_name[name_index + 1], split[i]))

alike_amount(pokemon_name, split) ==
    AlikeScan(split_word(pokemon_name), split, 1, 0, <<>>)

\* A variant with the factor applied to the whole sum: .25 * (sum(parts) + whole)
quarter_of_all(parts, whole) ==
    [raised |-> whole.raised \/ \E k \in 1..Len(parts) : parts[k].raised,
     amount |-> (SumSeq([k \in 1..Len(parts) |-> parts[k].sum]) + whole.sum)
                \div 4]

\* .25 * sum(parts) + whole, of the outcomes of alike_amount
quarter_plus(parts, whole) ==
    [raised |-> whole.raised \/ \E k \in 1..Len(parts) : parts[k].raised,
     amount |-> SumSeq([k \in 1..Len(parts) |-> parts[k].sum]) \div 4
                + whole.sum]

\* alike_amount of every name of name_split and of name_element itself
alike_amounts(name_split, name_element, split) ==
    [k \in 1..(Len(name_split) + 1) |->
        alike_amount(IF k <= Len(name_split) THEN name_split[k]
                     ELSE name_element, split)]

split_off(amounts) == quarter_plus(SubSeq(amounts, 1, Len(amounts) - 1),
                                   amounts[Len(amounts)])

\* .25 * sum(alike_amount(name) for name in name_split) + alike_amount(name_element)
combined_amount(name_element, split) ==
    split_off(alike_amounts(split_hyphen(name_element), name_element, split))

\* A variant with >= for >: a later candidate replaces an equal earlier one.
is_better_or_equal(amount, alike) == amount >= alike

\* if amount > alike: the candidate replaces the best one so far.
is_better(amount, alike) == amount > alike

\* A variant with < for <=: a score of exactly 1.0 is accepted.
is_rejected_below(name, alike) == Falsy(name) \/ alike < One

\* if not name or alike <= 1.0: return None
is_rejected(name, alike) == Falsy(name) \/ alike <= One

\* A variant without the threshold: the best candidate is returned as it is.
at_return_unchecked(name, alike, amounts) ==
    [raised |-> FALSE, name |-> name, alike |-> alike, amounts |-> amounts,
     ret |-> name]

\* The end of _extract_name: the locals and the value returned.
at_return(name, alike, amounts) ==
    [raised |-> FALSE, name |-> name, alike |-> alike, amounts |-> amounts,
     ret |-> IF is_rejected(name, alike) THEN None ELSE name]

RECURSIVE NameScan(_, _, _, _, _, _)
\* A variant that forgets alike = amount: every later candidate is compared
\* with the first value of alike.
NameStep_stale_alike(names, split, i, name, alike, amounts, c) ==
    IF c.raised
    THEN [raised |-> TRUE, name |-> name, alike |-> alike,
          amounts |-> amounts, ret |-> None]
    ELSE IF is_better(c.amount, alike)
    THEN NameScan(names, split, i + 1, names[i], alike,
                  Append(amounts, c.amount))
    ELSE NameScan(names, split, i + 1, name, alike, Append(amounts, c.amount))

\* One pass of the loop over names, with the name's amount c computed.
NameStep(names, split, i, name, alike, amounts, c) ==
    IF c.raised
    THEN [raised |-> TRUE, name |-> name, alike |-> alike,
          amounts |-> amounts, ret |-> None]
    ELSE IF is_better(c.amount, alike)
    THEN NameScan(names, split, i + 1, names[i], c.amount,
                  Append(amounts, c.amount))
    ELSE NameScan(names, split, i + 1, name, alike, Append(amounts, c.amount))

\* The loop over names, from the i-th name on; amounts is the amount of every
\* name seen so far.
NameScan(names, split, i, name, alike, amounts) ==
    IF i > Len(names) THEN at_return(name, alike, amounts)
    ELSE NameStep(names, split, i, name, alike, amounts,
                  combined_amount(names[i], split))

\* The outcome of _extract_name(message, names): the exception flag, the
\* locals name and alike at the end of the loop, every name's amount, and the
\* returned value.
_extract_name(utterance, names) ==
    NameScan(names, split_word(utterance), 1, None, 0, <<>>)

(***************************************************************************)
(* Evolution trees.  A tree has the nodes 1..Len(name), node 1 being the   *)
(* root (the chain the fetch returns); name[n] is attr(n, "species.name")  *)
(* and evolves_to[n] the list attr(n, "evolves_to") of child nodes in      *)
(* declaration order.  NoNode is None where a node may stand.              *)
(***************************************************************************)
NoNode == 0

Root == 1

NodesOf(tree) == 1..Len(tree.name)

\* bool(chain) of a node (a dict or an API object) or None
IsNode(n) == n # NoNode

RECURSIVE find_species_chain(_, _, _)
RECURSIVE ChildScan(_, _, _, _)
\* A variant that returns the result of the recursive call as it is: the
\* siblings after the first child are never searched.
ChildResult_first_only(tree, chain, name_of_species, k, r) == r

\* if r[0] and r[1]: return r -- else the loop goes on with the next child
ChildResult(tree, chain, name_of_species, k, r) ==
    IF IsNode(r[1]) /\ IsNode(r[2]) THEN r
    ELSE ChildScan(tree, chain, name_of_species, k + 1)

\* for evolution_chain in attr(chain, "evolves_to"), from the k-th child on
ChildScan(tree, chain, name_of_species, k) ==
    IF k > Len(tree.evolves_to[chain]) THEN <<NoNode, NoNode>>
    ELSE IF tree.name[tree.evolves_to[chain][k]] = name_of_species
    THEN <<chain, tree.evolves_to[chain][k]>>
    ELSE ChildResult(tree, chain, name_of_species, k,
             find_species_chain(tree, tree.evolves_to[chain][k],
                                name_of_species))

\* find_species_chain(chain, name_of_species): the pair <<previous, found>>
find_species_chain(tree, chain, name_of_species) ==
    IF tree.name[chain] = name_of_species THEN <<NoNode, chain>>
    ELSE ChildScan(tree, chain, name_of_species, 1)

RECURSIVE find_final_species_chains(_, _)
RECURSIVE FinalScan(_, _, _)
\* r.extend(find_final_species_chains(evolution_chain)), from the k-th child on
FinalScan(tree, evolves_to, k) ==
    IF k > Len(evolves_to) THEN <<>>
    ELSE find_final_species_chains(tree, evolves_to[k])
         \o FinalScan(tree, evolves_to, k + 1)

\* A variant without the test for a node that evolves no further.
find_final_species_chains_no_leaf(tree, chain) ==
    FinalScan(tree, tree.evolves_to[chain], 1)

find_final_species_chains(tree, chain) ==
    IF tree.evolves_to[chain] = <<>> THEN <<chain>>
    ELSE FinalScan(tree, tree.evolves_to[chain], 1)

(***************************************************************************)
(* The trees the walkers are called with: every shape of at most MaxNodes  *)
(* nodes (each node's parent is an earlier node, children are listed in    *)
(* the order of their numbers), the species named A, B, ... in the order   *)
(* of the nodes, and the same trees with one node carrying the name of     *)
(* another.  Z is the name of no node.                                     *)
(***************************************************************************)
MaxNodes == 4

SpeciesNames == <<"A", "B", "C", "D", "E", "F", "G", "H">>

Unknown == "Z"

\* The children of node p under the parent function par, in order.
RECURSIVE ChildrenFrom(_, _, _)
ChildrenFrom(par, p, n) ==
    IF n > Len(par) THEN <<>>
    ELSE IF n > 1 /\ par[n] = p THEN <<n>> \o ChildrenFrom(par, p, n + 1)
    ELSE ChildrenFrom(par, p, n + 1)

TreeOf(par, name) ==
    [name |-> name,
     evolves_to |-> [p \in 1..Len(par) |-> ChildrenFrom(par, p, 1)]]

\* par[n] < n for every node but the root, whose entry is not read.
ParentMaps(n) == {par \in [1..n -> 0..(n - 1)] :
                     par[1] = 0 /\ \A k \in 2..n : par[k] >= 1 /\ par[k] < k}

NameMaps(n) ==
    {[k \in 1..n |-> SpeciesNames[k]]}
    \cup {[k \in 1..n |-> SpeciesNames[IF k = j THEN i ELSE k]] :
             i \in 1..n, j \in 1..n}

Trees == UNION {{TreeOf(par, name) : par \in ParentMaps(n), name \in NameMaps(n)} :
                   n \in 1..MaxNodes}

(***************************************************************************)
(* The tree part of handle_pokemon_evolve_final (lines 441 to 453): the    *)
(* dialog it goes on to speak, or the exception raised on the way.         *)
(* attr(None, "evolves_to") is Python's AttributeError.                    *)
(***************************************************************************)
\* The branches on final_evolution_chain_list.
final_branch(tree, species_name, final_evolution_chain_list) ==
    IF Len(final_evolution_chain_list) = 1
          /\ tree.name[final_evolution_chain_list[1]] = species_name
    THEN IF tree.evolves_to[Root] = <<>>
         THEN [raised |-> "no", dialog |-> "pokemon.has.no.evolutions",
               final |-> final_evolution_chain_list]
         ELSE [raised |-> "no", dialog |-> "pokemon.is.in.final.evolution",
               final |-> final_evolution_chain_list]
    ELSE IF Len(final_evolution_chain_list) = 0
    THEN [raised |-> "ValueError", dialog |-> "",
          final |-> final_evolution_chain_list]
    ELSE [raised |-> "no", dialog |-> "pokemon.final.evolution",
          final |-> final_evolution_chain_list]

final_of_chain(tree, species_name, species_chain) ==
    IF ~IsNode(species_chain)
    THEN [raised |-> "AttributeError", dialog |-> "", final |-> <<>>]
    ELSE final_branch(tree, species_name,
                      find_final_species_chains(tree, species_chain))

evolve_final(tree, species_name) ==
    final_of_chain(tree, species_name,
                   find_species_chain(tree, Root, species_name)[2])

(***************************************************************************)
(* The tree parts of handle_pokemon_evolve_from (lines 495 to 511) and of   *)
(* handle_pokemon_evolve_into (lines 522 to 550).  previous_species is the *)
(* truth value of mon.species.evolves_from_species, a field of the fetched *)
(* species beside the tree.                                                *)
(***************************************************************************)
\* From `for evolution in attr(previous_chain, "evolves_to")` on.
from_of_chain(previous_chain, previous_species) ==
    IF ~IsNode(previous_chain)
    THEN [raised |-> "AttributeError", dialog |-> ""]
    ELSE IF ~previous_species
    THEN [raised |-> "no", dialog |-> "pokemon.has.no.previous.evolution"]
    ELSE [raised |-> "no", dialog |-> "pokemon.evolves.from"]

evolve_from(tree, species_name, previous_species) ==
    from_of_chain(find_species_chain(tree, Root, species_name)[1],
                  previous_species)

\* From `if not species_chain` on; names_into has one entry for each child.
into_of_chain(tree, species_chain) ==
    IF ~IsNode(species_chain)
    THEN [raised |-> "no", dialog |-> "pokemon.does.not.evolve"]
    ELSE IF tree.evolves_to[species_chain] = <<>>
    THEN [raised |-> "no", dialog |-> "pokemon.does.not.evolve"]
    ELSE [raised |-> "no", dialog |-> "pokemon.evolves.into"]

evolve_into(tree, species_name) ==
    into_of_chain(tree, find_species_chain(tree, Root, species_name)[2])

(***************************************************************************)
(* The skill's world: the name lists initialize() loads, the utterances    *)
(* the handlers hear, and the fetched records (pokemon(name), ability      *)
(* (name)) as far as the handlers read them.  A pokemon object is held as  *)
(* its name.                                                               *)
(***************************************************************************)
eevee == <<"e", "e", "v", "e", "e">>

vaporeon == <<"v", "a", "p", "o", "r", "e", "o", "n">>

jolteon == <<"j", "o", "l", "t", "e", "o", "n">>

raticate == <<"r", "a", "t", "i", "c", "a", "t", "e">>

mew == <<"m", "e", "w">>

static == <<"s", "t", "a", "t", "i", "c">>

red == <<"r", "e", "d">>

its_id == <<"i", "t", "s", " ", "i", "d">>

ground == <<"g", "r", "o", "u", "n", "d">>

pikachu_static == pikachu \o <<" ">> \o static

static_red == static \o <<" ">> \o red

LoadedNames ==
    [pokemon |-> <<pichu, pikachu, raichu, rattata, rattata_alola, eevee, mew>>,
     ability |-> <<static>>,
     version |-> <<red>>,
     type |-> <<ground>>]

SkillUtterances ==
    {pikachu, raichu, rattata_alola_spoken, eevee, its_id, static,
     pikachu_static, static_red, ground, mew}

\* mon.species.name
SpeciesOf(mon) == IF mon = rattata_alola THEN rattata ELSE mon

\* mon.species.evolution_chain.chain
ChainOf(species_name) ==
    IF species_name \in {pichu, pikachu, raichu}
    THEN [name |-> <<pichu, pikachu, raichu>>,
          evolves_to |-> << <<2>>, <<3>>, <<>> >>]
    ELSE IF species_name = rattata
    THEN [name |-> <<rattata, raticate>>, evolves_to |-> << <<2>>, <<>> >>]
    ELSE IF species_name = mew
    THEN [name |-> <<mew>>, evolves_to |-> << <<>> >>]
    ELSE [name |-> <<eevee, vaporeon, jolteon>>,
          evolves_to |-> << <<2, 3>>, <<>>, <<>> >>]

\* mon.forms[0].version_group.generation.id
GenerationOf(mon) ==
    IF mon = pichu THEN 2 ELSE IF mon = rattata_alola THEN 7 ELSE 1

\* The truth value of mon.species.evolves_from_species
EvolvesFrom(species_name) == species_name \notin {pichu, rattata, eevee, mew}

\* len(mon.types)
TypesOf(mon) == IF mon = rattata_alola THEN 2 ELSE 1

\* The truth value of self._form_name(mon)
FormOf(mon) == mon = rattata_alola

\* ability.generation.id
AbilityGeneration(ability) == 3

\* self.last_generation before any generation has been spoken
NoGeneration == 0

\* The keywords of message.data that handle_pokemon_ability reads.
AbilityFlags == {"AbilityFlavorText", "AbilityEffectEntry", "AbilityEffectEntryShort"}

(***************************************************************************)
(* The handlers.  speak_dialog(key, data) is the record Say(key, pokemon),  *)
(* pokemon being the pokemon whose record the answer was read from (None   *)
(* when the answer is about no pokemon).                                   *)
(* A handler's outcome is what it leaves in last_pokemon and                *)
(* last_generation, the dialogs it spoke and the exception it raised.      *)
(***************************************************************************)
Say(dialog, pokemon) == [dialog |-> dialog, pokemon |-> pokemon]

\* A variant with self.last_pokemon = mon moved before the fallback.
_check_pokemon_store_first(mon, last_pokemon) ==
    IF mon = None
    THEN IF last_pokemon = None
         THEN [ret |-> None, last_pokemon |-> None,
               spoken |-> <<Say("unable.to.find.pokemon", None)>>]
         ELSE [ret |-> last_pokemon, last_pokemon |-> None, spoken |-> <<>>]
    ELSE [ret |-> mon, last_pokemon |-> mon, spoken |-> <<>>]

\* A variant without the else branch, mon = self.last_pokemon.
_check_pokemon_without_memory(mon, last_pokemon) ==
    IF mon = None
    THEN [ret |-> None, last_pokemon |-> last_pokemon,
          spoken |-> <<Say("unable.to.find.pokemon", None)>>]
    ELSE [ret |-> mon, last_pokemon |-> mon, spoken |-> <<>>]

\* _check_pokemon(mon): the pokemon to use, the new last_pokemon, the dialog
_check_pokemon(mon, last_pokemon) ==
    IF mon = None
    THEN IF last_pokemon = None
         THEN [ret |-> None, last_pokemon |-> last_pokemon,
               spoken |-> <<Say("unable.to.find.pokemon", None)>>]
         ELSE [ret |-> last_pokemon, last_pokemon |-> last_pokemon,
               spoken |-> <<>>]
    ELSE [ret |-> mon, last_pokemon |-> mon, spoken |-> <<>>]

Outcome(last_pokemon, last_generation, checked, spoken, raised) ==
    [last_pokemon |-> last_pokemon, last_generation |-> last_generation,
     checked |-> checked, spoken |-> spoken, raised |-> raised]

\* handle_pokemon_id after _check_pokemon has returned c
pokemon_id(c, last_generation) ==
    IF c.ret = None
    THEN Outcome(c.last_pokemon, last_generation, TRUE, c.spoken, "no")
    ELSE Outcome(c.last_pokemon, last_generation, TRUE,
                 c.spoken \o <<Say("pokemon.id.is", c.ret)>>, "no")

handle_pokemon_id(mon, last_pokemon, last_generation) ==
    pokemon_id(_check_pokemon(mon, last_pokemon), last_generation)

\* handle_pokemon_evolve_final after its tree part has given f
evolve_final_spoken(c, last_generation, f) ==
    IF f.raised # "no"
    THEN Outcome(c.last_pokemon, last_generation, TRUE, c.spoken, f.raised)
    ELSE Outcome(c.last_pokemon, last_generation, TRUE,
                 c.spoken \o <<Say(f.dialog, c.ret)>>, "no")

pokemon_evolve_final(c, last_generation) ==
    IF c.ret = None
    THEN Outcome(c.last_pokemon, last_generation, TRUE, c.spoken, "no")
    ELSE evolve_final_spoken(c, last_generation,
             evolve_final(ChainOf(SpeciesOf(c.ret)), SpeciesOf(c.ret)))

handle_pokemon_evolve_final(mon, last_pokemon, last_generation) ==
    pokemon_evolve_final(_check_pokemon(mon, last_pokemon), last_generation)

\* do_pokemon_version_introduced(mon); the records fetched have forms
do_pokemon_version_introduced(mon, last_pokemon, checked, spoken) ==
    Outcome(last_pokemon, GenerationOf(mon), checked,
            spoken \o <<Say("pokemon.version.introduced", mon)>>, "no")

\* do_ability_generation_introduced(ability)
do_ability_generation_introduced(ability, last_pokemon) ==
    Outcome(last_pokemon, AbilityGeneration(ability), FALSE,
            <<Say("ability.generation.introduced", None)>>, "no")

\* handle_generation_introduced from mon = self._check_pokemon(mon) on
generation_checked(c, last_generation) ==
    IF c.ret = None
    THEN Outcome(c.last_pokemon, last_generation, TRUE, c.spoken, "no")
    ELSE do_pokemon_version_introduced(c.ret, c.last_pokemon, TRUE, c.spoken)

\* A variant that falls back on the remembered species before the ability.
handle_generation_introduced_memory_first(mon, ability, last_pokemon, last_generation) ==
    IF mon = None
    THEN IF ability # None /\ last_pokemon = None
         THEN do_ability_generation_introduced(ability, last_pokemon)
         ELSE generation_checked(_check_pokemon(mon, last_pokemon),
                                 last_generation)
    ELSE do_pokemon_version_introduced(mon, last_pokemon, FALSE, <<>>)

handle_generation_introduced(mon, ability, last_pokemon, last_generation) ==
    IF mon = None
    THEN IF ability # None
         THEN do_ability_generation_introduced(ability, last_pokemon)
         ELSE generation_checked(_check_pokemon(mon, last_pokemon),
                                 last_generation)
    ELSE do_pokemon_version_introduced(mon, last_pokemon, FALSE, <<>>)

\* do_flavor_text(ability, version_name).  has_text: an entry of
\* ability.flavor_text_entries passes the version filter.  Without a text
\* version(version_name) is fetched, which for version_name None may fail.
do_flavor_text(version_name, has_text, fetched, last_pokemon, last_generation) ==
    IF has_text
    THEN Outcome(last_pokemon, last_generation, FALSE,
                 <<Say("ability.flavor.text", None)>>, "no")
    ELSE IF version_name = None /\ ~fetched
    THEN Outcome(last_pokemon, last_generation, FALSE, <<>>, "ValueError")
    ELSE Outcome(last_pokemon, last_generation, FALSE,
                 <<Say("ability.not.in.version", None)>>, "no")

\* The branch of handle_pokemon_ability for an ability named in the
\* utterance.  has_text: for the effect entries, ability.effect_entries is
\* not empty.
ability_named(flags, version_name, has_text, fetched, last_pokemon, last_generation) ==
    IF "AbilityFlavorText" \in flags
          \/ ("AbilityEffectEntry" \notin flags
                /\ "AbilityEffectEntryShort" \notin flags)
    THEN do_flavor_text(version_name, has_text, fetched, last_pokemon,
                        last_generation)
    ELSE IF ~has_text
    THEN Outcome(last_pokemon, last_generation, FALSE, <<>>, "Exception")
    ELSE Outcome(last_pokemon, last_generation, FALSE,
                 <<Say("ability.effect.entry", None)>>, "no")

\* The end of handle_pokemon_ability: the abilities of mon, normal and hidden.
abilities_spoken(mon, last_pokemon, last_generation, checked, spoken, normal, hidden) ==
    Outcome(last_pokemon, last_generation, checked,
            spoken \o
            << IF ~normal /\ ~hidden THEN Say("pokemon.abilities.none", mon)
               ELSE IF ~normal THEN Say("pokemon.abilities.hidden", mon)
               ELSE IF ~hidden THEN Say("pokemon.abilities.non-hidden", mon)
               ELSE Say("pokemon.abilities.hidden.non-hidden", mon) >>,
            "no")

\* handle_pokemon_ability from mon = self._check_pokemon(mon) on
ability_checked(c, last_generation, normal, hidden) ==
    IF c.ret = None
    THEN Outcome(c.last_pokemon, last_generation, TRUE, c.spoken, "no")
    ELSE abilities_spoken(c.ret, c.last_pokemon, last_generation, TRUE,
                          c.spoken, normal, hidden)

\* data: has_text and fetched as in do_flavor_text, normal and hidden: mon
\* has abilities of that kind.
handle_pokemon_ability(mon, ability, version_name, flags, data, last_pokemon, last_generation) ==
    IF mon = None \/ flags # {}
    THEN IF ability # None
         THEN ability_named(flags, version_name, data.has_text, data.fetched,
                            last_pokemon, last_generation)
         ELSE ability_checked(_check_pokemon(mon, last_pokemon),
                              last_generation, data.normal, data.hidden)
    ELSE abilities_spoken(mon, last_pokemon, last_generation, FALSE, <<>>,
                          data.normal, data.hidden)

\* A handler that speaks one dialog about the pokemon, after _check_pokemon
\* has returned c.
pokemon_fact(c, last_generation, dialog) ==
    IF c.ret = None
    THEN Outcome(c.last_pokemon, last_generation, TRUE, c.spoken, "no")
    ELSE Outcome(c.last_pokemon, last_generation, TRUE,
                 c.spoken \o <<Say(dialog, c.ret)>>, "no")

\* handle_pokemon_type: one dialog for a pokemon of one type, the other for
\* one of two.
handle_pokemon_type(mon, last_pokemon, last_generation) ==
    LET c == _check_pokemon(mon, last_pokemon)
    IN  pokemon_fact(c, last_generation,
                     IF c.ret # None /\ TypesOf(c.ret) = 1
                     THEN "pokemon.type.one" ELSE "pokemon.type.two")

\* handle_pokemon_form
handle_pokemon_form(mon, last_pokemon, last_generation) ==
    LET c == _check_pokemon(mon, last_pokemon)
    IN  pokemon_fact(c, last_generation,
                     IF c.ret # None /\ FormOf(c.ret)
                     THEN "pokemon.is.in.form" ELSE "pokemon.has.no.forms")

\* The branches of handle_pokemon_evolve_first on the root of the chain.
evolve_first(tree, species_name) ==
    IF tree.name[Root] = species_name
    THEN IF tree.evolves_to[Root] = <<>>
         THEN [raised |-> "no", dialog |-> "pokemon.has.no.evolutions"]
         ELSE [raised |-> "no", dialog |-> "pokemon.is.in.first.evolution"]
    ELSE [raised |-> "no", dialog |-> "pokemon.first.evolution.is"]

\* An evolution handler after _check_pokemon has returned c, with the
\* outcome f of its part on the tree of c.ret.
pokemon_evolve(c, last_generation, f) ==
    IF c.ret = None
    THEN Outcome(c.last_pokemon, last_generation, TRUE, c.spoken, "no")
    ELSE IF f.raised # "no"
    THEN Outcome(c.last_pokemon, last_generation, TRUE, c.spoken, f.raised)
    ELSE Outcome(c.last_pokemon, last_generation, TRUE,
                 c.spoken \o <<Say(f.dialog, c.ret)>>, "no")

handle_pokemon_evolve_first(mon, last_pokemon, last_generation) ==
    LET c == _check_pokemon(mon, last_pokemon)
    IN  pokemon_evolve(c, last_generation,
            evolve_first(ChainOf(SpeciesOf(c.ret)), SpeciesOf(c.ret)))

handle_pokemon_evolve_from(mon, last_pokemon, last_generation) ==
    LET c == _check_pokemon(mon, last_pokemon)
    IN  pokemon_evolve(c, last_generation,
            evolve_from(ChainOf(SpeciesOf(c.ret)), SpeciesOf(c.ret),
                        EvolvesFrom(SpeciesOf(c.ret))))

handle_pokemon_evolve_into(mon, last_pokemon, last_generation) ==
    LET c == _check_pokemon(mon, last_pokemon)
    IN  pokemon_evolve(c, last_generation,
            evolve_into(ChainOf(SpeciesOf(c.ret)), SpeciesOf(c.ret)))

\* The loop of handle_type_effectiveness over the pokemon's types, from the
\* k-th on: effectiveness becomes None (is_none) once a type takes no damage,
\* and the loop breaks.
RECURSIVE effectiveness_from(_, _, _)
effectiveness_from(relations, k, effectiveness) ==
    IF k > Len(relations) THEN [is_none |-> FALSE, amount |-> effectiveness]
    ELSE IF relations[k] = "no_damage_from" THEN [is_none |-> TRUE, amount |-> 0]
    ELSE IF relations[k] = "double_damage_from"
    THEN effectiveness_from(relations, k + 1, effectiveness + 1)
    ELSE IF relations[k] = "half_damage_from"
    THEN effectiveness_from(relations, k + 1, effectiveness - 1)
    ELSE effectiveness_from(relations, k + 1, effectiveness)

\* The dialog chosen for the effectiveness.
type_is(effectiveness) ==
    IF effectiveness.is_none THEN "type.is.none"
    ELSE IF effectiveness.amount = 0 THEN "type.is.normal"
    ELSE IF effectiveness.amount < 0 THEN "type.is.half"
    ELSE "type.is.super"

\* A variant that returns without speak_dialog("no.type.specified").
type_effectiveness_silent_without_type(c, desired_type, relations, last_generation) ==
    IF c.ret = None \/ desired_type = None
    THEN Outcome(c.last_pokemon, last_generation, TRUE, c.spoken, "no")
    ELSE Outcome(c.last_pokemon, last_generation, TRUE,
                 c.spoken
                 \o <<Say(type_is(effectiveness_from(
                              SubSeq(relations, 1, TypesOf(c.ret)), 1, 0)),
                          c.ret)>>,
                 "no")

\* handle_type_effectiveness after _check_pokemon; relations holds what each
\* type slot of a pokemon says of the type asked about.
type_effectiveness(c, desired_type, relations, last_generation) ==
    IF c.ret = None
    THEN Outcome(c.last_pokemon, last_generation, TRUE, c.spoken, "no")
    ELSE IF desired_type = None
    THEN Outcome(c.last_pokemon, last_generation, TRUE,
                 c.spoken \o <<Say("no.type.specified", None)>>, "no")
    ELSE Outcome(c.last_pokemon, last_generation, TRUE,
                 c.spoken
                 \o <<Say(type_is(effectiveness_from(
                              SubSeq(relations, 1, TypesOf(c.ret)), 1, 0)),
                          c.ret)>>,
                 "no")

handle_type_effectiveness(mon, desired_type, relations, last_pokemon, last_generation) ==
    type_effectiveness(_check_pokemon(mon, last_pokemon), desired_type,
                       relations, last_generation)

(***************************************************************************)
(* The height handle_pokemon_height puts in display.  mon.height is an     *)
(* integer number of decimetres.  The code computes in floats; the model   *)
(* computes the same values exactly, in millionths of a foot.  A foot is   *)
(* 3.28084 / 10 decimetres, so feet is height * 328084 millionths, which   *)
(* is a whole number of feet only for a multiple of 250000 decimetres and  *)
(* half an inch away from a whole number of inches only for a multiple of  *)
(* 31250: below that the float's floor and round are those of the exact    *)
(* value.                                                                  *)
(***************************************************************************)
MaxHeight == 200

Million == 1000000

\* round(num / den) of Python 3 for num >= 0, den > 0: to the nearest integer,
\* a half to the even one.
round(num, den) ==
    IF 2 * (num % den) < den THEN num \div den
    ELSE IF 2 * (num % den) > den THEN num \div den + 1
    ELSE IF (num \div den) % 2 = 0 THEN num \div den
    ELSE num \div den + 1

\* feet = meters * 3.28084; whole_feet = floor(feet);
\* inches = (feet - whole_feet) * 12; str(whole_feet), str(int(round(inches)))
english_height(height) ==
    [height |-> height, unit |-> "english",
     whole |-> (height * 328084) \div Million,
     part |-> round(((height * 328084) % Million) * 12, Million)]

\* str(round(meters * 10.0) / 10.0): whole meters and tenths
metric_height(height) ==
    [height |-> height, unit |-> "metric",
     whole |-> height \div 10, part |-> height % 10]

\* _use_english_units(message), from the message's EnglishLength and
\* MetricLength and the configuration's system_unit
_use_english_units(english_length, metric_length, system_unit) ==
    IF english_length THEN TRUE
    ELSE IF metric_length THEN FALSE
    ELSE system_unit \in {"english", "imperial"}

\* The display of handle_pokemon_height for a pokemon height decimetres tall.
height_display(height, english) ==
    IF english THEN english_height(height) ELSE metric_height(height)

(***************************************************************************)
(* State.                                                                  *)
(***************************************************************************)
VARIABLES
    utterance,      \* message.data["utterance"] of the call to _extract_name
    names,          \* the candidate list of that call
    extracted,      \* Pending before the call returns, then its outcome
    chain,          \* the evolution tree the walkers are called with
    call,           \* the last call of a walker: its name, argument and result
    loaded,         \* self.pokemon_names, ability_names, version_names
    understood,     \* what _extract_name finds in each utterance, per list
    last_pokemon,   \* self.last_pokemon
    last_generation,\* self.last_generation
    handled,        \* the last handler invocation: its input and outcome
    running,        \* the calls of the core functions in flight, by caller
    displayed       \* the height handle_pokemon_height last put in display

name_vars == <<utterance, names, extracted>>

tree_vars == <<chain, call>>

skill_vars == <<loaded, understood, last_pokemon, last_generation, handled>>

vars == <<utterance, names, extracted, chain, call,
          loaded, understood, last_pokemon, last_generation, handled, running,
          displayed>>

Pending == [raised |-> FALSE, name |-> None, alike |-> 0, amounts |-> <<>>,
            ret |-> <<"Pending">>]

NoCall == [op |-> "none", arg |-> "", ret |-> <<>>]

NoTree == [name |-> <<>>, evolves_to |-> <<>>]

\* The parts of the state a specification does not use stay as they are here.
NameIdle == utterance = <<>> /\ names = <<>> /\ extracted = Pending

TreeIdle == chain = NoTree /\ call = NoCall

NotHandled == [handler |-> "none", utterance |-> <<>>, flags |-> {},
               mon |-> None, checked |-> FALSE, spoken |-> <<>>,
               raised |-> "no"]

SkillIdle ==
    /\ loaded = <<>>
    /\ understood = <<>>
    /\ last_pokemon = None
    /\ last_generation = NoGeneration
    /\ handled = NotHandled

CallsIdle == running = <<>>

HeightIdle ==
    displayed = [height |-> 0, unit |-> "none", whole |-> 0, part |-> 0]

(***************************************************************************)
(* The name matcher on its own: the inputs are drawn at the start, the one *)
(* step is the call.                                                       *)
(***************************************************************************)
NameInit ==
    /\ \E in \in NameInputs : utterance = in[1] /\ names = in[2]
    /\ extracted = Pending
    /\ TreeIdle
    /\ SkillIdle
    /\ CallsIdle
    /\ HeightIdle

ExtractName ==
    /\ extracted = Pending
    /\ extracted' = _extract_name(utterance, names)
    /\ UNCHANGED <<utterance, names, tree_vars, skill_vars, running, displayed>>

NameNext == ExtractName

SpecName == NameInit /\ [][NameNext]_vars

(***************************************************************************)
(* The tree walkers on their own: the tree is drawn at the start, every    *)
(* step is one call on it.                                                 *)
(***************************************************************************)
NamesIn(tree) == {tree.name[n] : n \in NodesOf(tree)}

TreeInit ==
    /\ chain \in Trees
    /\ call = NoCall
    /\ NameIdle
    /\ SkillIdle
    /\ CallsIdle
    /\ HeightIdle

FindSpeciesChain ==
    /\ \E name_of_species \in NamesIn(chain) \cup {Unknown} :
          call' = [op |-> "find_species_chain", arg |-> name_of_species,
                   ret |-> find_species_chain(chain, Root, name_of_species)]
    /\ UNCHANGED <<chain, name_vars, skill_vars, running, displayed>>

FindFinalSpeciesChains ==
    /\ \E n \in NodesOf(chain) :
          call' = [op |-> "find_final_species_chains", arg |-> n,
                   ret |-> find_final_species_chains(chain, n)]
    /\ UNCHANGED <<chain, name_vars, skill_vars, running, displayed>>

\* The species of the pokemon asked about is a species of its own chain, or
\* (Unknown) the fetched chain does not hold it.
EvolveFinalChains ==
    /\ \E species_name \in NamesIn(chain) \cup {Unknown} :
          call' = [op |-> "handle_pokemon_evolve_final", arg |-> species_name,
                   ret |-> evolve_final(chain, species_name)]
    /\ UNCHANGED <<chain, name_vars, skill_vars, running, displayed>>

EvolveFromChains ==
    /\ \E species_name \in NamesIn(chain) \cup {Unknown},
          previous_species \in BOOLEAN :
          call' = [op |-> "handle_pokemon_evolve_from", arg |-> species_name,
                   ret |-> evolve_from(chain, species_name, previous_species)]
    /\ UNCHANGED <<chain, name_vars, skill_vars, running, displayed>>

EvolveIntoChains ==
    /\ \E species_name \in NamesIn(chain) \cup {Unknown} :
          call' = [op |-> "handle_pokemon_evolve_into", arg |-> species_name,
                   ret |-> evolve_into(chain, species_name)]
    /\ UNCHANGED <<chain, name_vars, skill_vars, running, displayed>>

TreeNext ==
    \/ FindSpeciesChain
    \/ FindFinalSpeciesChains
    \/ EvolveFinalChains
    \/ EvolveFromChains
    \/ EvolveIntoChains

SpecTree == TreeInit /\ [][TreeNext]_vars

(***************************************************************************)
(* The skill: after __init__ and initialize() the name lists are loaded    *)
(* and nothing is remembered; every step is one handler invocation on one  *)
(* message.  The lists never change, so what _extract_name finds in an     *)
(* utterance is computed once, in understood, and read by the handlers:    *)
(* understood[u][list] = _extract_name(u, loaded[list]).                   *)
(***************************************************************************)
Init ==
    /\ loaded = LoadedNames
    /\ understood =
          [u \in SkillUtterances |->
              [list \in DOMAIN LoadedNames |->
                  _extract_name(u, LoadedNames[list]).ret]]
    /\ last_pokemon = None
    /\ last_generation = NoGeneration
    /\ handled = NotHandled
    /\ NameIdle
    /\ TreeIdle
    /\ CallsIdle
    /\ HeightIdle

\* _extract_pokemon(message): pokemon(name), or None
_extract_pokemon(u) == understood[u].pokemon

\* _extract_ability(message): ability(name), or None
_extract_ability(u) == understood[u].ability

\* The invocation of handler on utterance u has ended with outcome o.
Finish(handler, u, flags, o) ==
    /\ last_pokemon' = o.last_pokemon
    /\ last_generation' = o.last_generation
    /\ handled' = [handler |-> handler, utterance |-> u, flags |-> flags,
                   mon |-> _extract_pokemon(u), checked |-> o.checked,
                   spoken |-> o.spoken, raised |-> o.raised]
    /\ UNCHANGED <<loaded, understood, name_vars, tree_vars, running, displayed>>

HandlePokemonId ==
    \E u \in SkillUtterances :
        Finish("handle_pokemon_id", u, {},
               handle_pokemon_id(_extract_pokemon(u), last_pokemon,
                                 last_generation))

HandlePokemonEvolveFinal ==
    \E u \in SkillUtterances :
        Finish("handle_pokemon_evolve_final", u, {},
               handle_pokemon_evolve_final(_extract_pokemon(u), last_pokemon,
                                           last_generation))

HandleGenerationIntroduced ==
    \E u \in SkillUtterances :
        Finish("handle_generation_introduced", u, {},
               handle_generation_introduced(_extract_pokemon(u),
                   _extract_ability(u), last_pokemon, last_generation))

\* The fetched records an invocation of handle_pokemon_ability reads: those
\* of the ability when it takes the ability branch, those of the pokemon
\* otherwise; what it does not read is held at FALSE.
AbilityRecords(u, flags) ==
    IF (_extract_pokemon(u) = None \/ flags # {}) /\ _extract_ability(u) # None
    THEN [has_text : BOOLEAN, fetched : BOOLEAN,
          normal : {FALSE}, hidden : {FALSE}]
    ELSE [has_text : {FALSE}, fetched : {FALSE},
          normal : BOOLEAN, hidden : BOOLEAN]

HandlePokemonAbility ==
    \E u \in SkillUtterances, flags \in SUBSET AbilityFlags :
        \E data \in AbilityRecords(u, flags) :
            Finish("handle_pokemon_ability", u, flags,
                   handle_pokemon_ability(_extract_pokemon(u),
                       _extract_ability(u), understood[u].version, flags,
                       data, last_pokemon, last_generation))

\* A handler that answers with one fixed dialog about the pokemon.
AnswerFact(handler, dialog) ==
    \E u \in SkillUtterances :
        Finish(handler, u, {},
               pokemon_fact(_check_pokemon(_extract_pokemon(u), last_pokemon),
                            last_generation, dialog))

HandlePokemonWeight == AnswerFact("handle_pokemon_weight", "pokemon.weighs")

HandlePokemonHeight == AnswerFact("handle_pokemon_height", "pokemon.height")

HandlePokemonType ==
    \E u \in SkillUtterances :
        Finish("handle_pokemon_type", u, {},
               handle_pokemon_type(_extract_pokemon(u), last_pokemon,
                                   last_generation))

HandlePokemonEvolveFirst ==
    \E u \in SkillUtterances :
        Finish("handle_pokemon_evolve_first", u, {},
               handle_pokemon_evolve_first(_extract_pokemon(u), last_pokemon,
                                           last_generation))

HandlePokemonEvolveFrom ==
    \E u \in SkillUtterances :
        Finish("handle_pokemon_evolve_from", u, {},
               handle_pokemon_evolve_from(_extract_pokemon(u), last_pokemon,
                                          last_generation))

HandlePokemonEvolveInto ==
    \E u \in SkillUtterances :
        Finish("handle_pokemon_evolve_into", u, {},
               handle_pokemon_evolve_into(_extract_pokemon(u), last_pokemon,
                                          last_generation))

HandlePokemonForm ==
    \E u \in SkillUtterances :
        Finish("handle_pokemon_form", u, {},
               handle_pokemon_form(_extract_pokemon(u), last_pokemon,
                                   last_generation))

\* The six handlers that call do_pokemon_base(message, stat).
DoPokemonBase ==
    \E handler \in {"handle_pokemon_base_speed",
                    "handle_pokemon_base_special_defense",
                    "handle_pokemon_base_special_attack",
                    "handle_pokemon_base_defense",
                    "handle_pokemon_base_attack",
                    "handle_pokemon_base_hp"} :
        AnswerFact(handler, "base.stat.is")

HandlePokemonColor == AnswerFact("handle_pokemon_color", "pokemon.color.is")

HandlePokemonShape == AnswerFact("handle_pokemon_shape", "pokemon.shape.is")

HandlePokemonHabitat == AnswerFact("handle_pokemon_habitat", "pokemon.lives.in")

HandlePokemonBaseHappiness ==
    AnswerFact("handle_pokemon_base_happiness", "base.stat.is")

HandlePokemonBaseExperience ==
    AnswerFact("handle_pokemon_base_experience", "base.stat.is")

HandlePokemonCaptureRate ==
    AnswerFact("handle_pokemon_capture_rate", "pokemon.capture.rate")

HandlePokemonEggGroups ==
    AnswerFact("handle_pokemon_egg_groups", "pokemon.egg.groups.are")

\* _extract_type(message): type_(name), or None
_extract_type(u) == understood[u].type

\* The damage relations are read when the type asked about is known, one for
\* each type slot of the pokemon: the type asked about is in the slot's
\* no_damage_from, double_damage_from or half_damage_from, or in none.
RelationsRead(u) ==
    IF _extract_type(u) = None THEN {<<>>}
    ELSE [1..2 -> {"no_damage_from", "double_damage_from",
                   "half_damage_from", "other"}]

HandleTypeEffectiveness ==
    \E u \in SkillUtterances :
        \E relations \in RelationsRead(u) :
            Finish("handle_type_effectiveness", u, {},
                   handle_type_effectiveness(_extract_pokemon(u),
                       _extract_type(u), relations, last_pokemon,
                       last_generation))

Next ==
    \/ HandlePokemonId
    \/ HandlePokemonWeight
    \/ HandlePokemonHeight
    \/ HandlePokemonType
    \/ HandlePokemonEvolveFinal
    \/ HandlePokemonEvolveFirst
    \/ HandlePokemonEvolveFrom
    \/ HandlePokemonEvolveInto
    \/ HandlePokemonForm
    \/ HandleGenerationIntroduced
    \/ DoPokemonBase
    \/ HandlePokemonColor
    \/ HandlePokemonShape
    \/ HandlePokemonHabitat
    \/ HandlePokemonBaseHappiness
    \/ HandlePokemonBaseExperience
    \/ HandlePokemonCaptureRate
    \/ HandlePokemonEggGroups
    \/ HandleTypeEffectiveness
    \/ HandlePokemonAbility

Spec == Init /\ [][Next]_vars

(***************************************************************************)
(* handle_pokemon_height, for the pokemon of every height.                 *)
(***************************************************************************)
HeightInit ==
    /\ NameIdle
    /\ TreeIdle
    /\ SkillIdle
    /\ CallsIdle
    /\ HeightIdle

HandleHeight ==
    /\ \E height \in 0..MaxHeight,
          system_unit \in {"english", "metric", "imperial", "unknown"} :
           \E english_length, metric_length \in BOOLEAN :
               displayed' = height_display(height,
                                _use_english_units(english_length,
                                                   metric_length, system_unit))
    /\ UNCHANGED <<name_vars, tree_vars, skill_vars, running>>

SpecHeight == HeightInit /\ [][HandleHeight]_vars

(***************************************************************************)
(* The core functions called by several callers at once, one call for each *)
(* incoming utterance, over the same candidate list and the same tree.  A  *)
(* call of _extract_name runs one pass of its loop over names at a step,   *)
(* with its locals (name, alike) in its own frame; a call of a tree walker *)
(* is one step.  given is what the caller saw of the shared objects when   *)
(* the call began; understood[u].names is what _extract_name finds in u    *)
(* against the list when it is the only call.                              *)
(***************************************************************************)
\* The callers in flight at once.
NumCallers == 2

Callers == 1..NumCallers

SharedLists == {<<pikachu, raichu, pichu>>, <<rattata, rattata_alola, pikachu>>}

SharedChains == {ChainOf(pichu), ChainOf(eevee)}

SharedUtterances ==
    {pikachu, rattata_alola_spoken, rattata}

Requests ==
    {[op |-> "_extract_name", arg |-> u] : u \in SharedUtterances}
    \cup {[op |-> "find_species_chain", arg |-> raichu]}
    \cup {[op |-> "find_final_species_chains", arg |-> <<>>]}

NotCalled == [pc |-> "idle"]

Shared == [names |-> names, chain |-> chain, last_pokemon |-> last_pokemon,
           last_generation |-> last_generation]

\* The frame of a call that has just begun.
Frame(request, given) ==
    [pc |-> "called", op |-> request.op, arg |-> request.arg, given |-> given,
     i |-> 1, name |-> None, alike |-> 0, ret |-> <<>>]

\* The locals after the pass of the loop over names for names[f.i].
LoopLocals(f, at) == [f EXCEPT !.i = f.i + 1, !.name = at.name, !.alike = at.alike]

\* A variant that keeps name and alike in one place for all the calls.
LoopPass_shared_best(frames, c, at) ==
    [d \in DOMAIN frames |->
        IF d = c THEN LoopLocals(frames[c], at)
        ELSE IF frames[d].pc = "called" /\ frames[d].op = "_extract_name"
        THEN [frames[d] EXCEPT !.name = at.name, !.alike = at.alike]
        ELSE frames[d]]

\* One pass of `for name_element in names` in the frame of caller c.
LoopPass(frames, c, at) == [frames EXCEPT ![c] = LoopLocals(frames[c], at)]

Returned(f, ret) == [f EXCEPT !.pc = "done", !.ret = ret]

SharedInit ==
    /\ names \in SharedLists
    /\ chain \in SharedChains
    /\ last_pokemon = pikachu
    /\ last_generation = GenerationOf(pikachu)
    /\ running = [c \in Callers |-> NotCalled]
    /\ utterance = <<>>
    /\ extracted = Pending
    /\ call = NoCall
    /\ loaded = <<>>
    /\ understood = [u \in SharedUtterances |->
                        [names |-> _extract_name(u, names).ret]]
    /\ handled = NotHandled
    /\ HeightIdle

Begin(c) ==
    /\ running[c].pc = "idle"
    /\ \E request \in Requests :
          running' = [running EXCEPT ![c] = Frame(request, Shared)]
    /\ UNCHANGED <<name_vars, tree_vars, skill_vars, displayed>>

ExtractNamePass(c) ==
    /\ running[c].pc = "called"
    /\ running[c].op = "_extract_name"
    /\ running[c].i <= Len(names)
    /\ \E at \in {NameScan(SubSeq(names, 1, running[c].i),
                            split_word(running[c].arg), running[c].i,
                            running[c].name, running[c].alike, <<>>)} :
          running' = LoopPass(running, c, at)
    /\ UNCHANGED <<name_vars, tree_vars, skill_vars, displayed>>

ExtractNameReturn(c) ==
    /\ running[c].pc = "called"
    /\ running[c].op = "_extract_name"
    /\ running[c].i > Len(names)
    /\ running' = [running EXCEPT ![c] =
                      Returned(running[c],
                               at_return(running[c].name, running[c].alike,
                                         <<>>).ret)]
    /\ UNCHANGED <<name_vars, tree_vars, skill_vars, displayed>>

WalkChain(c) ==
    /\ running[c].pc = "called"
    /\ running[c].op = "find_species_chain"
    /\ running' = [running EXCEPT ![c] =
                      Returned(running[c],
                               find_species_chain(chain, Root, running[c].arg))]
    /\ UNCHANGED <<name_vars, tree_vars, skill_vars, displayed>>

WalkFinalChains(c) ==
    /\ running[c].pc = "called"
    /\ running[c].op = "find_final_species_chains"
    /\ running' = [running EXCEPT ![c] =
                      Returned(running[c],
                               find_final_species_chains(chain, Root))]
    /\ UNCHANGED <<name_vars, tree_vars, skill_vars, displayed>>

SharedNext ==
    \E c \in Callers :
        \/ Begin(c)
        \/ ExtractNamePass(c)
        \/ ExtractNameReturn(c)
        \/ WalkChain(c)
        \/ WalkFinalChains(c)

SpecShared == SharedInit /\ [][SharedNext]_vars

(***************************************************************************)
(* Vocabulary of the properties of the name matcher.                       *)
(***************************************************************************)
Done == extracted # Pending

Tokens == split_word(utterance)

NameSet == {names[i] : i \in 1..Len(names)}

\* The combined score of the i-th candidate against the utterance.
Score(i) == combined_amount(names[i], Tokens).amount

Above(word, token) == above_bar(ratio(word, token))

\* The candidate held at the end of the loop is the first of those with the
\* greatest of the scores, and none is held when no score is above 0.
IsFirstMaximum(scores) ==
    IF \A i \in 1..Len(scores) : scores[i] <= 0
    THEN extracted.name = None
    ELSE \E i \in 1..Len(scores) :
            /\ extracted.name = names[i]
            /\ extracted.alike = scores[i]
            /\ \A j \in 1..Len(scores) : scores[j] <= scores[i]
            /\ \A j \in 1..(i - 1) : scores[j] < scores[i]

WordsOf(name) == LET w == split_word(name) IN {w[i] : i \in 1..Len(w)}

Hyphenated(name) == Len(split_word(name)) > 1

\* Token k is the one token that passes the bar against the one-word
\* candidate c, and no token passes it against a word of another candidate.
NoisyCase(c, k) ==
    /\ c \in NameSet
    /\ ~Hyphenated(c)
    /\ k \in 1..Len(Tokens)
    /\ Above(c, Tokens[k])
    /\ \A j \in 1..Len(Tokens) : Above(c, Tokens[j]) <=> j = k
    /\ \A d \in NameSet \ {c} : \A w \in WordsOf(d) :
          \A j \in 1..Len(Tokens) : ~Above(w, Tokens[j])

\* C1 as stated: a token whose ratio to a one-word candidate exceeds 0.7,
\* among unrelated words, resolves the utterance to that candidate:
\* "tell me about pikachoo please" resolves to pikachu.
C1_NoisyInputAsClaimed ==
    (/\ Done
     /\ utterance = tell_me_about_pikachoo_please
     /\ names = <<pikachu, raichu, pichu>>
     /\ NoisyCase(pikachu, 4))
    => extracted.ret = pikachu

\* C1 amended: such an utterance resolves to the candidate exactly when the
\* token's ratio exceeds 0.8 (1.25 * ratio > 1.0), and to None otherwise:
\* "tell me about pikachoo please", ratio 12/15, resolves to None.
C1_NoisyInputAboveFourFifths ==
    Done => \A c \in NameSet : \A k \in 1..Len(Tokens) :
                NoisyCase(c, k) =>
                    extracted.ret = IF 5 * ratio(c, Tokens[k]) > 4 * One
                                    THEN c ELSE None

C1_Witness ==
    /\ Done
    /\ utterance = tell_me_about_pikacho_please
    /\ names = <<pikachu, raichu, pichu>>
    /\ NoisyCase(pikachu, 4)
    /\ Tokens[4] # pikachu
    /\ extracted.ret = pikachu

\* C2 as stated: an utterance that is exactly a candidate of the list
\* resolves to that candidate, whatever the list's order and other names.
C2_ExactMatchAsClaimed ==
    (Done /\ utterance \in NameSet) => extracted.ret = utterance

\* C2 amended: an utterance that is exactly a candidate c resolves to c in
\* every order of a list of hyphen-free names; a hyphenated name whose first
\* word is c scores at least as much as c, so when it comes before c in the
\* list the result is not c.
C2_ExactMatch ==
    (Done /\ utterance \in NameSet) =>
        /\ (\A d \in NameSet : ~Hyphenated(d)) => extracted.ret = utterance
        /\ (\E i, j \in 1..Len(names) :
                /\ i < j
                /\ names[j] = utterance
                /\ Hyphenated(names[i])
                /\ Head(split_word(names[i])) = utterance)
           => extracted.ret # utterance

C2_Witness ==
    /\ Done
    /\ utterance = pikachu
    /\ names = <<raichu, pichu, pikachu>>
    /\ extracted.ret = pikachu

\* The utterance names, in order, the two words of the hyphenated candidate
\* names[h], and names[b] is its base name.
NamesBoth(b, h) ==
    /\ ~Hyphenated(names[b])
    /\ Len(Tokens) = 2
    /\ Tokens[1] = names[b]
    /\ split_word(names[h]) = Tokens
    /\ split_hyphen(names[h]) = Tokens

\* C3: when the utterance names both words of a two-word hyphenated
\* candidate and the list holds the base name too, the hyphenated candidate
\* scores strictly higher than the base name, the base name is not returned,
\* and with just these two names in the list, in either order, the
\* hyphenated candidate is returned.
C3_HyphenatedPreferred ==
    Done => \A b, h \in 1..Len(names) :
                NamesBoth(b, h) =>
                    /\ Score(h) > Score(b)
                    /\ extracted.ret # names[b]
                    /\ Len(names) = 2 => extracted.ret = names[h]

C3_Witness ==
    /\ Done
    /\ utterance = rattata_alola_spoken
    /\ names = <<rattata_alola, rattata>>
    /\ NamesBoth(2, 1)
    /\ extracted.ret = rattata_alola

\* No token passes the bar against the first word of a candidate or of one
\* of its hyphen-separated sub-names.
NoFirstWordAbove ==
    \A d \in NameSet :
        LET subs == split_hyphen(d)
            firsts == {Head(split_word(d))}
                      \cup {Head(split_word(subs[k])) : k \in 1..Len(subs)}
        IN  \A w \in firsts : \A j \in 1..Len(Tokens) : ~Above(w, Tokens[j])

\* C4: the result is None or a candidate of the list whose combined score is
\* strictly greater than 1.0; it is None when no token passes the bar against
\* the first word of any candidate or sub-name.
C4_AcceptedAboveThreshold ==
    Done =>
        /\ \/ extracted.ret = None
           \/ \E i \in 1..Len(names) :
                names[i] = extracted.ret /\ Score(i) > One
        /\ NoFirstWordAbove => extracted.ret = None

C4_Witness ==
    /\ Done
    /\ utterance = what_is_the_weather
    /\ names = <<pikachu, raichu, pichu>>
    /\ NoFirstWordAbove
    /\ extracted.ret = None

\* C5: the candidate considered for acceptance has the greatest combined
\* score of the list and is the first of the list with that score; none is
\* considered when no candidate scores above 0.
C5_FirstMaximum ==
    Done => Len(extracted.amounts) = Len(names)
            /\ IsFirstMaximum(extracted.amounts)

\* Two candidates tie at the maximum and the first of them is kept.
C5_Witness ==
    /\ Done
    /\ utterance = rattata
    /\ names = <<rattata_alola, pikachu, rattata>>
    /\ Score(1) = Score(3)
    /\ extracted.name = rattata_alola

\* C6: _extract_name raises nothing, whatever the utterance and the list:
\* the pointer into the candidate's words is never read at or past their end,
\* and the empty utterance resolves to None.
C6_NeverRaises ==
    Done =>
        /\ ~extracted.raised
        /\ extracted.ret = None \/ extracted.ret \in NameSet
        /\ utterance = <<>> => extracted.ret = None

\* An utterance with more tokens than the candidate it matches has words.
C6_Witness ==
    /\ Done
    /\ utterance = tell_me_about_pikacho_please
    /\ names = <<pikachu>>
    /\ Len(Tokens) > Len(split_word(names[1]))
    /\ ~extracted.raised

\* The utterance's tokens with the empty ones left out.
WordTokens == SelectSeq(Tokens, LAMBDA t : t # <<>>)

RECURSIVE AlignFrom(_, _, _, _)
\* The scan at token k with the pointer at word j + 1, r being the ratio of
\* the two: above 0.7 the ratio is added and the pointer advances; below, the
\* token is skipped while no word has matched, and the scan ends otherwise.
AlignAt(U, W, k, j, r) ==
    IF 10 * r > 7 * One THEN r + AlignFrom(U, W, k + 1, j + 1)
    ELSE IF j = 0 THEN AlignFrom(U, W, k + 1, 0)
    ELSE 0

\* The sum recorded from token k on; the scan ends with the tokens or when
\* the pointer reaches the end of the word list.
AlignFrom(U, W, k, j) ==
    IF k > Len(U) \/ j >= Len(W) THEN 0
    ELSE AlignAt(U, W, k, j, ratio(W[j + 1], U[k]))

\* align(U, words(name))
Align(U, name) == AlignFrom(U, split_word(name), 1, 0)

\* align(U, words(candidate)) + 0.25 * the sum of align over the sub-names
AlignScore(U, candidate, subs) ==
    Align(U, candidate)
    + SumSeq([k \in 1..Len(subs) |-> Align(U, subs[k])]) \div 4

AlignScores(U) ==
    [i \in 1..Len(names) |-> AlignScore(U, names[i], split_hyphen(names[i]))]

C15_NoEmptyToken ==
    Done =>
        /\ \A k \in 1..Len(Tokens) : Tokens[k] # <<>>
        /\ \A i \in 1..Len(names) : \A w \in WordsOf(names[i]) : w # <<>>

(***************************************************************************)
(* Vocabulary of the properties of the tree walkers.                       *)
(***************************************************************************)
UniqueNames(tree) ==
    \A m, n \in NodesOf(tree) : tree.name[m] = tree.name[n] => m = n

\* The node whose evolves_to holds n; NoNode for the root.
ParentOf(tree, n) ==
    IF \E p \in NodesOf(tree) : \E k \in 1..Len(tree.evolves_to[p]) :
            tree.evolves_to[p][k] = n
    THEN CHOOSE p \in NodesOf(tree) : \E k \in 1..Len(tree.evolves_to[p]) :
            tree.evolves_to[p][k] = n
    ELSE NoNode

\* n and the nodes above it, up to the root.
RECURSIVE UpFrom(_, _)
UpFrom(tree, n) ==
    IF n = NoNode THEN {} ELSE {n} \cup UpFrom(tree, ParentOf(tree, n))

\* The nodes of top's subtree that evolve no further.
LeavesUnder(tree, top) ==
    {n \in NodesOf(tree) : top \in UpFrom(tree, n) /\ tree.evolves_to[n] = <<>>}

\* x comes before y in depth-first child-declaration order: at the node where
\* the ways down to x and to y part, the child towards x is declared first.
DeclaredBefore(tree, x, y) ==
    \E a \in NodesOf(tree) : \E i, j \in 1..Len(tree.evolves_to[a]) :
        /\ i < j
        /\ tree.evolves_to[a][i] \in UpFrom(tree, x)
        /\ tree.evolves_to[a][j] \in UpFrom(tree, y)

\* C7: in a tree of unique species names, find_species_chain returns
\* (None, root) for the root's name, (parent of n, n) for the name of a
\* node n below the root, and (None, None) for a name of no node.
C7_LocateInUniqueTree ==
    (call.op = "find_species_chain" /\ UniqueNames(chain)) =>
        /\ chain.name[Root] = call.arg => call.ret = <<NoNode, Root>>
        /\ \A n \in NodesOf(chain) \ {Root} :
              chain.name[n] = call.arg
                  => call.ret = <<ParentOf(chain, n), n>>
        /\ call.arg \notin NamesIn(chain) => call.ret = <<NoNode, NoNode>>

\* The target is found two levels down, in the subtree of the second child.
C7_Witness ==
    /\ call.op = "find_species_chain"
    /\ UniqueNames(chain)
    /\ Len(chain.evolves_to[Root]) = 2
    /\ IsNode(call.ret[1])
    /\ call.ret[1] = chain.evolves_to[Root][2]
    /\ chain.name[call.ret[2]] = call.arg

Located == find_species_chain(chain, Root, call.arg)

\* C11 (as stated): handle_pokemon_evolve_from for the species at the root
\* of its tree (the parent half is None) speaks
\* pokemon.has.no.previous.evolution without raising, and
\* handle_pokemon_evolve_final and handle_pokemon_evolve_into speak a
\* response without raising when the target half is None.
C11_EmptyHalvesAreSpoken ==
    /\ (call.op = "handle_pokemon_evolve_from" /\ call.arg = chain.name[Root])
          => /\ call.ret.raised = "no"
             /\ call.ret.dialog = "pokemon.has.no.previous.evolution"
    /\ (/\ call.op \in {"handle_pokemon_evolve_final",
                        "handle_pokemon_evolve_into"}
        /\ ~IsNode(Located[2]))
          => call.ret.raised = "no" /\ call.ret.dialog # ""

\* More than one node of the tree carries the name.
Duplicated(tree, name) ==
    \E m, n \in NodesOf(tree) :
        m # n /\ tree.name[m] = name /\ tree.name[n] = name

\* C12 (as stated): asked for a name that more than one node of the tree
\* carries, find_species_chain reports the violation and does not return
\* one of the nodes of that name as a normal result.
C12_DuplicateFailsLoudly ==
    (call.op = "find_species_chain" /\ Duplicated(chain, call.arg))
        => ~(IsNode(call.ret[2]) /\ chain.name[call.ret[2]] = call.arg)

(***************************************************************************)
(* Vocabulary of the properties of the skill's memory.                     *)
(***************************************************************************)
\* Some handler has been invoked, and handled is that invocation.
Invoked == handled.handler # "none"

\* The invocation's utterance resolved to a species.
Resolved == Invoked /\ handled.mon # None

\* The step is an invocation whose utterance resolved to no species and
\* which reached _check_pokemon.
FailedResolution == handled'.mon = None /\ handled'.checked

\* The invocation went on with mon: it did not speak unable.to.find.pokemon,
\* and every dialog of it that is about a pokemon is about mon.
WentOnWith(spoken, mon) ==
    \A i \in 1..Len(spoken) :
        /\ spoken[i].dialog # "unable.to.find.pokemon"
        /\ spoken[i].pokemon \in {mon, None}

\* C9 (as stated): after any handler finishes an invocation in which the
\* utterance resolved to a species, last_pokemon holds that species.
C9_RememberedOnEveryResolution == Resolved => last_pokemon = handled.mon

\* C10: when the utterance resolves to no species, _check_pokemon leaves
\* last_pokemon unchanged; with last_pokemon empty the handler speaks only
\* unable.to.find.pokemon and stops, and with a species in last_pokemon it
\* goes on with that species (handle_pokemon_id answers pokemon.id.is about
\* it).
C10_FailedResolutionKeepsMemory ==
    [][FailedResolution =>
          /\ last_pokemon' = last_pokemon
          /\ IF last_pokemon = None
             THEN /\ handled'.spoken = <<Say("unable.to.find.pokemon", None)>>
                  /\ handled'.raised = "no"
                  /\ last_generation' = last_generation
             ELSE /\ WentOnWith(handled'.spoken, last_pokemon)
                  /\ handled'.handler = "handle_pokemon_id"
                        => /\ handled'.spoken = <<Say("pokemon.id.is", last_pokemon)>>
                           /\ handled'.raised = "no"
    ]_vars

\* A failed resolution answered from memory: handle_pokemon_id heard no
\* species and spoke the id of the remembered one.
C10_Witness ==
    /\ handled.handler = "handle_pokemon_id"
    /\ handled.mon = None
    /\ handled.checked
    /\ last_pokemon = pikachu
    /\ handled.spoken = <<Say("pokemon.id.is", pikachu)>>

\* The invocation spoke unable.to.find.pokemon.
SpokeUnable(spoken) ==
    \E i \in 1..Len(spoken) : spoken[i].dialog = "unable.to.find.pokemon"

\* C16: once last_pokemon holds a species it is never empty again, and in
\* every later invocation that reaches _check_pokemon, whatever the
\* utterance, _check_pokemon returns a species and unable.to.find.pokemon
\* is not spoken.
C16_MemoryIsNeverReset ==
    [][last_pokemon # None =>
          /\ last_pokemon' # None
          /\ handled'.checked =>
                /\ _check_pokemon(handled'.mon, last_pokemon).ret # None
                /\ ~SpokeUnable(handled'.spoken)
    ]_vars

\* With raichu remembered, an utterance that names no species reached
\* _check_pokemon in handle_pokemon_weight and was answered for raichu.
C16_Witness ==
    /\ handled.handler = "handle_pokemon_weight"
    /\ handled.mon = None
    /\ handled.checked
    /\ last_pokemon = raichu
    /\ handled.spoken = <<Say("pokemon.weighs", raichu)>>

\* The step is an invocation of handle_generation_introduced.
GenerationAsked == handled'.handler = "handle_generation_introduced"

\* C17: handle_generation_introduced answers for the species the utterance
\* names; otherwise for the ability it names, with
\* ability.generation.introduced, neither calling _check_pokemon nor
\* changing last_pokemon, whether a species is remembered or not; with
\* neither named it answers for the remembered species, and speaks
\* unable.to.find.pokemon only when none is remembered.
C17_GenerationFallbackOrder ==
    [][GenerationAsked =>
          IF handled'.mon # None
          THEN handled'.spoken
                   = <<Say("pokemon.version.introduced", handled'.mon)>>
          ELSE IF _extract_ability(handled'.utterance) # None
          THEN /\ handled'.spoken
                      = <<Say("ability.generation.introduced", None)>>
               /\ ~handled'.checked
               /\ last_pokemon' = last_pokemon
          ELSE IF last_pokemon # None
          THEN /\ handled'.spoken
                      = <<Say("pokemon.version.introduced", last_pokemon)>>
               /\ last_pokemon' = last_pokemon
          ELSE handled'.spoken = <<Say("unable.to.find.pokemon", None)>>
    ]_vars

\* With pikachu remembered, an utterance that names the ability static and
\* no species was answered for the ability, and pikachu is still remembered.
C17_Witness ==
    /\ handled.handler = "handle_generation_introduced"
    /\ handled.utterance = static
    /\ handled.mon = None
    /\ last_pokemon = pikachu
    /\ ~handled.checked
    /\ handled.spoken = <<Say("ability.generation.introduced", None)>>

\* C18: an invocation of an intent handler that returned without raising
\* has spoken exactly one dialog.
C18_OneDialogPerInvocation ==
    (Invoked /\ handled.raised = "no") => Len(handled.spoken) = 1

\* With rattata alola remembered, an utterance that names the type ground
\* and no species was answered with the one dialog type.is.super.
C18_Witness ==
    /\ handled.handler = "handle_type_effectiveness"
    /\ handled.utterance = ground
    /\ handled.mon = None
    /\ handled.raised = "no"
    /\ last_pokemon = rattata_alola
    /\ handled.spoken = <<Say("type.is.super", rattata_alola)>>

\* C19 (as stated): when handle_pokemon_height answers in English units,
\* the inches it speaks are a whole number from 0 to 11, for a pokemon of
\* every height.
C19_InchesBelowTwelve ==
    displayed.unit = "english" => displayed.part \in 0..11

(***************************************************************************)
(* Vocabulary of the properties of calls in flight together.               *)
(***************************************************************************)
\* What the call of frame f returns when it runs with no other call around.
Alone(f) ==
    IF f.op = "_extract_name" THEN understood[f.arg].names
    ELSE IF f.op = "find_species_chain"
    THEN find_species_chain(f.given.chain, Root, f.arg)
    ELSE find_final_species_chains(f.given.chain, Root)

\* C13: the core functions mutate no shared state: while and after a call
\* the candidate list, the tree (every node's species name and evolves_to),
\* last_pokemon and last_generation are as they were when the call began,
\* and a call interleaved with others returns what it returns alone.
C13_CallsMutateNothing ==
    \A c \in DOMAIN running :
        running[c].pc # "idle" =>
            /\ running[c].given = Shared
            /\ running[c].pc = "done" => running[c].ret = Alone(running[c])

\* Two calls of _extract_name for different utterances have both been
\* through the loop, the second having begun before the first returned.
C13_Witness ==
    /\ running # <<>>
    /\ running[1].pc = "done"
    /\ running[2].pc = "called"
    /\ running[1].op = "_extract_name"
    /\ running[2].op = "_extract_name"
    /\ running[1].arg = pikachu
    /\ running[2].arg = rattata_alola_spoken
    /\ running[2].i > 1
    /\ running[1].ret = pikachu

=============================================================================
